---- MODULE Spec2Model ----
(***************************************************************************)
(* The time-zone converter widget of 0xedev/TimeZone, in its three         *)
(* variants: the offset picker (date field, time field, offset select,     *)
(* conversion in an effect), the free-text variant (one ISO string,        *)
(* conversion behind a 300 ms timer) and the date-picker variant (a Date   *)
(* value and an offset select, conversion behind a 300 ms timer).          *)
(*                                                                         *)
(* Time is counted in minutes since 2025-03-08T00:00Z.  A wall-clock       *)
(* reading is the same count taken in a zone's civil time.                 *)
(***************************************************************************)
EXTENDS Integers, Sequences, FiniteSets, TLC

(***************************************************************************)
(* Bounds of the model.                                                    *)
(***************************************************************************)
MaxEvents == 3         \* user operations, clock ticks and zone changes
MaxDay == 0            \* days 0..MaxDay can be typed into a date field
MaxInFlight == 2       \* conversions suspended in their delay at once
MaxCopies == 2         \* presses of a copy button

ClockStart == 17 * 60  \* 2025-03-08T17:00Z, the first clock reading
ClockStep == 3 * 60    \* minutes between two clock readings
TypedTimes == {720}                       \* 12:00 on the dial
HostZones == {"UTC", "America/New_York", "Asia/Tokyo"}
OffsetChoices == {1, 13, 15}              \* UTC-12, UTC, UTC+2
QuickFillHours == {0, 1, 24}

(***************************************************************************)
(* The host: its zone database, the civil-time arithmetic of Date.         *)
(***************************************************************************)
MinutesPerDay == 24 * 60

\* offset from UTC, in minutes, of a zone at an instant (the host's zone
\* database around 2025-03-09, when the United States switch to DST)
UtcOffset(zone, t) ==
  CASE zone = "America/New_York"    -> IF t < 1860 THEN -300 ELSE -240
    [] zone = "America/Los_Angeles" -> IF t < 2040 THEN -480 ELSE -420
    [] zone = "Europe/London"       -> 0
    [] zone = "Asia/Tokyo"          -> 540
    [] zone = "Australia/Sydney"    -> 660
    [] zone = "Asia/Dubai"          -> 240
    [] OTHER                        -> 0

\* the offset a zone has outside DST and the one it has after the switch
StdOffset(zone) == UtcOffset(zone, -MinutesPerDay)
DstOffset(zone) == UtcOffset(zone, 10 * MinutesPerDay)

\* the wall-clock reading of an instant in a zone
WallClock(t, zone) == t + UtcOffset(zone, t)

\* the instant of a wall-clock reading taken in a zone; a reading skipped
\* by the switch to DST is read with the offset before the switch
LocalToUTC(zone, wall) ==
  LET t1 == wall - StdOffset(zone)
      t2 == wall - DstOffset(zone)
  IN  IF UtcOffset(zone, t1) = StdOffset(zone) THEN t1
      ELSE IF UtcOffset(zone, t2) = DstOffset(zone) THEN t2
      ELSE t1

(***************************************************************************)
(* Values: numbers (with NaN), Date objects (or null), form strings.       *)
(***************************************************************************)
Num(n) == [nan |-> FALSE, n |-> n]
NaN == [nan |-> TRUE, n |-> 0]

DateObj(num) == [k |-> "Date", nan |-> num.nan, n |-> num.n]
Null == [k |-> "null", nan |-> FALSE, n |-> 0]
getTime(date) == [nan |-> date.nan, n |-> date.n]
isNaN(num) == num.nan

EmptyStr == [k |-> "", d |-> 0, m |-> 0]
BadStr == [k |-> "unparseable", d |-> 0, m |-> 0]
YMD(d) == [k |-> "YYYY-MM-DD", d |-> d, m |-> 0]
HM(m) == [k |-> "HH:MM", d |-> 0, m |-> m]
ISO(d, m) == [k |-> "YYYY-MM-DDTHH:MM:SSZ", d |-> d, m |-> m]

\* !s of a string, !d of a Date | null
Falsy(v) == v.k = "" \/ v.k = "null"

(***************************************************************************)
(* The source-offset options.  An option is the sequence of its            *)
(* characters, so that it is parsed the way the code parses it.            *)
(***************************************************************************)
utcOffsets ==
<< <<"U", "T", "C", "-", "1", "2">>,
   <<"U", "T", "C", "-", "1", "1">>,
   <<"U", "T", "C", "-", "1", "0">>,
   <<"U", "T", "C", "-", "9">>,
   <<"U", "T", "C", "-", "8">>,
   <<"U", "T", "C", "-", "7">>,
   <<"U", "T", "C", "-", "6">>,
   <<"U", "T", "C", "-", "5">>,
   <<"U", "T", "C", "-", "4">>,
   <<"U", "T", "C", "-", "3">>,
   <<"U", "T", "C", "-", "2">>,
   <<"U", "T", "C", "-", "1">>,
   <<"U", "T", "C">>,
   <<"U", "T", "C", "+", "1">>,
   <<"U", "T", "C", "+", "2">>,
   <<"U", "T", "C", "+", "3">>,
   <<"U", "T", "C", "+", "4">>,
   <<"U", "T", "C", "+", "5">>,
   <<"U", "T", "C", "+", "6">>,
   <<"U", "T", "C", "+", "7">>,
   <<"U", "T", "C", "+", "8">>,
   <<"U", "T", "C", "+", "9">>,
   <<"U", "T", "C", "+", "1", "0">>,
   <<"U", "T", "C", "+", "1", "1">>,
   <<"U", "T", "C", "+", "1", "2">> >>

Digits == <<"0", "1", "2", "3", "4", "5", "6", "7", "8", "9">>
IsDigit(c) == \E i \in 1..10 : Digits[i] = c
DigitValue(c) == (CHOOSE i \in 1..10 : Digits[i] = c) - 1

\* s.replace(pattern, ""): s without the first occurrence of pattern
RemoveFirst(s, pattern) ==
  LET n == Len(pattern)
      hits == {i \in 1..(Len(s) - n + 1) : SubSeq(s, i, i + n - 1) = pattern}
  IN  IF hits = {} THEN s
      ELSE LET i == CHOOSE h \in hits : \A g \in hits : h <= g
           IN  SubSeq(s, 1, i - 1) \o SubSeq(s, i + n, Len(s))

\* the value of the longest prefix of digits of s, read after acc
RECURSIVE ParseDigits(_, _)
ParseDigits(s, acc) ==
  IF s = <<>> \/ ~IsDigit(Head(s)) THEN acc
  ELSE ParseDigits(Tail(s), 10 * acc + DigitValue(Head(s)))

\* a parseInt that reads the digits and drops the sign
parseIntUnsigned(s) ==
  LET signed == s # <<>> /\ Head(s) \in {"+", "-"}
      body == IF signed THEN Tail(s) ELSE s
  IN  IF body = <<>> \/ ~IsDigit(Head(body)) THEN NaN
      ELSE Num(ParseDigits(body, 0))

\* parseInt(s): an optional sign, then digits; NaN when no digit follows
parseInt(s) ==
  LET signed == s # <<>> /\ Head(s) \in {"+", "-"}
      body == IF signed THEN Tail(s) ELSE s
  IN  IF body = <<>> \/ ~IsDigit(Head(body)) THEN NaN
      ELSE IF signed /\ Head(s) = "-" THEN Num(0 - ParseDigits(body, 0))
      ELSE Num(ParseDigits(body, 0))

\* parseInt(eventTimeZone.replace("UTC", "") || "0")
OffsetHours(tz) ==
  LET rest == RemoveFirst(tz, <<"U", "T", "C">>)
  IN  parseInt(IF rest = <<>> THEN <<"0">> ELSE rest)

(***************************************************************************)
(* Parsing and printing of dates.                                          *)
(***************************************************************************)
\* new Date(`${eventDate}T${eventTime}:00`): a date-time without an offset
\* is a wall-clock reading in the host's zone
ParseLocalDateTime(dateStr, timeStr, hostZone) ==
  IF dateStr.k = "YYYY-MM-DD" /\ timeStr.k = "HH:MM"
  THEN DateObj(Num(LocalToUTC(hostZone, dateStr.d * MinutesPerDay + timeStr.m)))
  ELSE DateObj(NaN)

\* new Date(eventTime) of the free-text field: an ISO string ending in Z
\* is an instant, any other text here is no date
ParseISO(str) ==
  IF str.k = "YYYY-MM-DDTHH:MM:SSZ"
  THEN DateObj(Num(str.d * MinutesPerDay + str.m))
  ELSE DateObj(NaN)

\* date.toISOString()
toISOString(date) == ISO(date.n \div MinutesPerDay, date.n % MinutesPerDay)

\* date.toTimeString().slice(0, 5): the host zone's HH:MM
toTimeString(date, hostZone) == HM(WallClock(date.n, hostZone) % MinutesPerDay)

\* formatDateTime: the date of the UTC day, the time of the host's zone
formatDateTime(date, hostZone) ==
  [dateStr |-> YMD(toISOString(date).d), timeStr |-> toTimeString(date, hostZone)]

\* now.setHours(now.getHours() + hours): the hour of the host zone's
\* wall clock is moved, the result is that reading's instant
setHours(date, hours, hostZone) ==
  DateObj(Num(LocalToUTC(hostZone, WallClock(date.n, hostZone) + 60 * hours)))

\* new Date(date.getTime() - offsetHours * 60 * 60 * 1000)
AdjustedDate(date, offsetHours) ==
  IF isNaN(getTime(date)) \/ isNaN(offsetHours) THEN DateObj(NaN)
  ELSE DateObj(Num(date.n - offsetHours.n * 60))

(***************************************************************************)
(* The zone catalog and the conversion of one instant into records.        *)
(***************************************************************************)
\* the catalog with London entered twice and Dubai left out
popularTimeZonesRepeated ==
  << [name |-> "New York", zone |-> "America/New_York", isLocal |-> FALSE],
     [name |-> "Los Angeles", zone |-> "America/Los_Angeles", isLocal |-> FALSE],
     [name |-> "London", zone |-> "Europe/London", isLocal |-> FALSE],
     [name |-> "Tokyo", zone |-> "Asia/Tokyo", isLocal |-> FALSE],
     [name |-> "Sydney", zone |-> "Australia/Sydney", isLocal |-> FALSE],
     [name |-> "London", zone |-> "Europe/London", isLocal |-> FALSE] >>

popularTimeZones ==
  << [name |-> "New York", zone |-> "America/New_York", isLocal |-> FALSE],
     [name |-> "Los Angeles", zone |-> "America/Los_Angeles", isLocal |-> FALSE],
     [name |-> "London", zone |-> "Europe/London", isLocal |-> FALSE],
     [name |-> "Tokyo", zone |-> "Asia/Tokyo", isLocal |-> FALSE],
     [name |-> "Sydney", zone |-> "Australia/Sydney", isLocal |-> FALSE],
     [name |-> "Dubai", zone |-> "Asia/Dubai", isLocal |-> FALSE] >>

\* the viewer's record put after the catalog
allTimeZonesViewerLast(userTimeZone) ==
  popularTimeZones
    \o << [name |-> "Your Local Time", zone |-> userTimeZone, isLocal |-> TRUE] >>

\* the viewer's zone asked once and kept: every list shows the first answer
allTimeZonesCached(userTimeZone) ==
  << [name |-> "Your Local Time", zone |-> "UTC", isLocal |-> TRUE] >>
    \o popularTimeZones

\* the viewer's record first, then the catalog
allTimeZones(userTimeZone) ==
  << [name |-> "Your Local Time", zone |-> userTimeZone, isLocal |-> TRUE] >>
    \o popularTimeZones

\* a label of a record: a prefix, then a word, then a signed hour count
Label(prefix, word, signed, hours) ==
  [prefix |-> prefix, word |-> word, signed |-> signed, hours |-> hours]

\* a record without an offset property
NoLabel == Label("", "", FALSE, 0)

\* the short zone name of the en-US locale, as a label without prefix
ShortZoneName(zone, t) ==
  CASE zone = "America/New_York" ->
         Label("", IF UtcOffset(zone, t) = StdOffset(zone) THEN "EST" ELSE "EDT",
               FALSE, 0)
    [] zone = "America/Los_Angeles" ->
         Label("", IF UtcOffset(zone, t) = StdOffset(zone) THEN "PST" ELSE "PDT",
               FALSE, 0)
    [] zone = "UTC" -> Label("", "UTC", FALSE, 0)
    [] OTHER ->
         IF UtcOffset(zone, t) = 0 THEN Label("", "GMT", FALSE, 0)
         ELSE Label("", "GMT", TRUE, UtcOffset(zone, t) \div 60)

\* date.toLocaleString("en-US", {timeZone, timeZoneName: "short"})
\* .split(" ")[2] : the text is  M/D/YYYY, h:mm:ss AM ZONE ; hosts whose
\* locale data put U+202F before AM/PM make the zone name the third piece,
\* the others the AM/PM marker
ThirdPiece(zone, t, narrow) ==
  IF narrow THEN ShortZoneName(zone, t)
  ELSE Label("", IF WallClock(t, zone) % MinutesPerDay < 12 * 60
                 THEN "AM" ELSE "PM", FALSE, 0)

\* the offset property of a record: formatToParts of a formatter asked for
\* hour and minute only has no timeZoneName part, so the label is always
\* "GMT" followed by the third piece; the offset picker's records have no
\* such property
OffsetLabel(zone, t, v, narrow) ==
  IF v = "offsetPicker" THEN NoLabel
  ELSE [ThirdPiece(zone, t, narrow) EXCEPT !.prefix = "GMT"]

\* one record: the zone entry with the instant printed in the zone
ConvertOne(tz, date, v, narrow) ==
  LET wall == WallClock(date.n, tz.zone)
  IN  [name |-> tz.name, zone |-> tz.zone, isLocal |-> tz.isLocal,
       converted |-> wall,
       timeOnly |-> wall % MinutesPerDay,
       dateOnly |-> wall \div MinutesPerDay,
       offset |-> OffsetLabel(tz.zone, date.n, v, narrow)]

\* allTimeZones.map(...) inside the try block: the formatter throws a
\* RangeError for an invalid date and for a zone the host does not know,
\* and the exception leaves the whole map without a result
Conversions(date, userTimeZone, known, v, narrow) ==
  LET zones == allTimeZones(userTimeZone)
  IN  IF isNaN(getTime(date)) \/ \E i \in 1..Len(zones) : zones[i].zone \notin known
      THEN [ok |-> FALSE, list |-> <<>>]
      ELSE [ok |-> TRUE,
            list |-> [i \in 1..Len(zones) |->
                        ConvertOne(zones[i], date, v, narrow)]]

\* a failure clears the list
SetConvertedTimesClearing(prev, outcome) ==
  IF outcome.ok THEN outcome.list ELSE <<>>

\* only the first list is ever shown
SetConvertedTimesKeepFirst(prev, outcome) ==
  IF outcome.ok /\ prev = <<>> THEN outcome.list ELSE prev

\* a new list is added to the one shown
SetConvertedTimesAppending(prev, outcome) ==
  IF outcome.ok THEN prev \o outcome.list ELSE prev

\* setConvertedTimes(conversions) is the last statement of the try block:
\* it runs when nothing was thrown, otherwise the list stays
SetConvertedTimes(prev, outcome) ==
  IF outcome.ok THEN outcome.list ELSE prev

(***************************************************************************)
(* State.                                                                  *)
(***************************************************************************)
VARIABLES
  variant,         \* which of the three App components runs
  pc,              \* "init" before the mount effects, "ready" after
  now,             \* the host clock
  hostZone,        \* the zone the host reports
  knownZones,      \* the zones of the host's zone database
  eventDate,       \* offset picker: the date field
  eventTime,       \* the time field / the ISO text / the picked Date
  eventTimeZone,   \* the selected source-offset option
  convertedTimes,  \* the displayed result list
  error,           \* the displayed error message
  isConverting,    \* the Convert button's busy flag
  effectPending,   \* offset picker: the auto-convert effect is due
  pending,         \* handleConvert calls suspended in their 300 ms delay
  lastOp,          \* history: the last thing the page or the user did
  lastCall,        \* history: the conversion that published last
  done,            \* history: how the last resolved conversion ended
  burst,           \* history: the current run of overlapping calls
  events,          \* history: the external events so far
  narrowSpace,     \* the host's en-US data put U+202F before AM/PM
  copiedIndex,     \* <<>> for null, <<i>> for the acknowledged record i
  clipboard,       \* clipboard writes that have not settled yet
  copyTimers,      \* acknowledgment timers that have not fired yet
  copyDone,        \* history: how the last settled clipboard write ended
  copies           \* history: the presses of a copy button so far

vars == <<variant, pc, now, hostZone, knownZones, eventDate, eventTime,
          eventTimeZone, convertedTimes, error, isConverting, effectPending,
          pending, lastOp, lastCall, done, burst, events, narrowSpace,
          copiedIndex, clipboard, copyTimers, copyDone, copies>>

\* what the conversion handlers leave alone
others == <<narrowSpace, copiedIndex, clipboard, copyTimers, copyDone, copies>>

\* what the copy handlers leave alone
conversionVars ==
  <<variant, pc, now, hostZone, knownZones, eventDate, eventTime,
    eventTimeZone, convertedTimes, error, isConverting, effectPending,
    pending, lastOp, lastCall, done, burst, events, narrowSpace>>

env == <<now, hostZone, knownZones>>

Variants == {"offsetPicker", "freeText", "datePicker"}
CatalogZones == {popularTimeZones[i].zone : i \in 1..Len(popularTimeZones)}

\* useState initial values
InitialEventTime(v) == IF v = "datePicker" THEN Null ELSE EmptyStr

\* the state after construction, on any host
Constructed ==
  /\ variant \in Variants
  /\ pc = "init"
  /\ now = ClockStart
  /\ hostZone \in HostZones
  /\ knownZones \in {HostZones \cup CatalogZones,
                     HostZones \cup (CatalogZones \ {"Asia/Dubai"})}
  /\ eventDate = EmptyStr
  /\ eventTime = InitialEventTime(variant)
  /\ eventTimeZone = utcOffsets[13]
  /\ convertedTimes = <<>>
  /\ error = ""
  /\ isConverting = FALSE
  /\ effectPending = FALSE
  /\ pending = <<>>
  /\ lastOp = [op |-> "none", at |-> 0, hours |-> 0]
  /\ lastCall = [date |-> EmptyStr, arg |-> InitialEventTime(variant),
                 tz |-> <<>>, zone |-> "", list |-> <<>>]
  /\ done = [tick |-> FALSE, outcome |-> "none", repeat |-> FALSE,
             rezoned |-> FALSE]
  /\ burst = [overlap |-> FALSE, writes |-> 0]
  /\ events = 0
  /\ copiedIndex = <<>>
  /\ clipboard = <<>>
  /\ copyTimers = <<>>
  /\ copyDone = [tick |-> FALSE, ok |-> TRUE, index |-> 0]
  /\ copies = 0

\* hosts whose locale data separate AM/PM with a plain space
Init ==
  /\ Constructed
  /\ narrowSpace = FALSE

\* hosts of either kind of locale data, in UTC, knowing every zone; the
\* offset picker never reads the locale's date text
LabelInit ==
  /\ Constructed
  /\ hostZone = "UTC"
  /\ knownZones = HostZones \cup CatalogZones
  /\ narrowSpace \in (IF variant = "offsetPicker" THEN {FALSE} ELSE BOOLEAN)

\* an event from outside: the user operates the page, the clock or the
\* host's zone moves; effects and timers are the page's own steps
External == events < MaxEvents /\ events' = events + 1

Edit == [op |-> "edit", at |-> 0, hours |-> 0]
Resolved(outcome) ==
  [tick |-> ~done.tick, outcome |-> outcome, repeat |-> FALSE,
   rezoned |-> FALSE]

\* a publication; repeat tells that the call before it that published
\* had read the same values under the same host zone, rezoned that it
\* had run under another host zone
Publication(date, arg, tz) ==
  [tick |-> ~done.tick, outcome |-> "published",
   repeat |-> /\ lastCall.list # <<>>
              /\ lastCall.date = date /\ lastCall.arg = arg
              /\ lastCall.tz = tz /\ lastCall.zone = hostZone,
   rezoned |-> lastCall.list # <<>> /\ lastCall.zone # hostZone]

\* how a conversion that was not refused at once ends
OutcomeKind(date, out) ==
  IF out.ok THEN "published"
  ELSE IF isNaN(getTime(date)) THEN "unparseable" ELSE "zone"

(***************************************************************************)
(* The host environment.  An effect runs right after the render that made  *)
(* it due, so the clock and the zone do not move before it has run;        *)
(* they do move while a call waits for its timer.                          *)
(***************************************************************************)
Tick ==
  /\ External /\ ~effectPending
  /\ now' = now + ClockStep
  /\ UNCHANGED <<variant, pc, hostZone, knownZones, eventDate, eventTime,
                 eventTimeZone, convertedTimes, error, isConverting,
                 effectPending, pending, lastOp, lastCall, done, burst>>
  /\ UNCHANGED others

HostZoneChange ==
  /\ External /\ ~effectPending
  /\ \E z \in HostZones \ {hostZone} : hostZone' = z
  /\ UNCHANGED <<variant, pc, now, knownZones, eventDate, eventTime,
                 eventTimeZone, convertedTimes, error, isConverting,
                 effectPending, pending, lastOp, lastCall, done, burst>>
  /\ UNCHANGED others

(***************************************************************************)
(* The offset-picker variant.                                              *)
(***************************************************************************)
\* a convertTimes whose dependency list leaves out the offset
FieldsChangedDateTimeOnly ==
  eventDate' # eventDate \/ eventTime' # eventTime

\* the three setters re-render, and a render with a changed date, time or
\* offset gives convertTimes a new identity, which makes the effect due
FieldsChanged ==
  eventDate' # eventDate \/ eventTime' # eventTime \/ eventTimeZone' # eventTimeZone

\* the two mount effects: the first fills the fields from the clock, the
\* second calls convertTimes of the first render, whose fields are empty
MountOffsetPicker ==
  /\ variant = "offsetPicker" /\ pc = "init"
  /\ pc' = "ready"
  /\ LET f == formatDateTime(DateObj(Num(now)), hostZone)
     IN  eventDate' = f.dateStr /\ eventTime' = f.timeStr
  /\ done' = Resolved("missing")
  /\ effectPending' = TRUE
  /\ lastOp' = [op |-> "mount", at |-> now, hours |-> 0]
  /\ UNCHANGED <<events, variant, env, eventTimeZone, convertedTimes, error,
                 isConverting, pending, lastCall, burst>>
  /\ UNCHANGED others

UserCanActOffsetPicker == variant = "offsetPicker" /\ pc = "ready" /\ ~effectPending

SetEventDate ==
  /\ UserCanActOffsetPicker /\ External
  /\ \E v \in {EmptyStr, BadStr} \cup {YMD(d) : d \in 0..MaxDay} : eventDate' = v
  /\ lastOp' = Edit
  /\ UNCHANGED <<variant, pc, env, eventTime, eventTimeZone, convertedTimes,
                 error, isConverting, pending, lastCall, done, burst>>
  /\ effectPending' = FieldsChanged
  /\ UNCHANGED others

SetEventTime ==
  /\ UserCanActOffsetPicker /\ External
  /\ \E v \in {EmptyStr} \cup {HM(m) : m \in TypedTimes} : eventTime' = v
  /\ lastOp' = Edit
  /\ UNCHANGED <<variant, pc, env, eventDate, eventTimeZone, convertedTimes,
                 error, isConverting, pending, lastCall, done, burst>>
  /\ effectPending' = FieldsChanged
  /\ UNCHANGED others

SetEventTimeZone ==
  /\ UserCanActOffsetPicker /\ External
  /\ \E o \in OffsetChoices : eventTimeZone' = utcOffsets[o]
  /\ lastOp' = Edit
  /\ UNCHANGED <<variant, pc, env, eventDate, eventTime, convertedTimes,
                 error, isConverting, pending, lastCall, done, burst>>
  /\ effectPending' = FieldsChanged
  /\ UNCHANGED others

QuickFillOffsetPicker ==
  /\ UserCanActOffsetPicker /\ External
  /\ \E hours \in QuickFillHours :
       LET f == formatDateTime(setHours(DateObj(Num(now)), hours, hostZone), hostZone)
       IN  /\ eventDate' = f.dateStr
           /\ eventTime' = f.timeStr
           /\ lastOp' = [op |-> "quickfill", at |-> now, hours |-> hours]
  /\ UNCHANGED <<variant, pc, env, eventTimeZone, convertedTimes, error,
                 isConverting, pending, lastCall, done, burst>>
  /\ effectPending' = FieldsChanged
  /\ UNCHANGED others

\* the auto-convert effect: convertTimes() on the rendered fields
AutoConvert ==
  /\ variant = "offsetPicker" /\ effectPending
  /\ effectPending' = FALSE
  /\ IF Falsy(eventDate) \/ Falsy(eventTime)
     THEN /\ done' = Resolved("missing")
          /\ UNCHANGED <<convertedTimes, lastCall>>
     ELSE LET eventDateTime == ParseLocalDateTime(eventDate, eventTime, hostZone)
              adjustedDate == AdjustedDate(eventDateTime, OffsetHours(eventTimeZone))
              out == Conversions(adjustedDate, hostZone, knownZones, variant,
                                 narrowSpace)
          IN  /\ convertedTimes' = SetConvertedTimes(convertedTimes, out)
              /\ done' = IF out.ok
                         THEN Publication(eventDate, eventTime, eventTimeZone)
                         ELSE Resolved(OutcomeKind(adjustedDate, out))
              /\ lastCall' = IF out.ok
                             THEN [date |-> eventDate, arg |-> eventTime,
                                   tz |-> eventTimeZone, zone |-> hostZone,
                                   list |-> out.list]
                             ELSE lastCall
  /\ UNCHANGED <<variant, pc, env, eventDate, eventTime, eventTimeZone, error,
                 isConverting, pending, lastOp, burst, events>>
  /\ UNCHANGED others

(***************************************************************************)
(* handleConvert of the free-text and the date-picker variants.  A call    *)
(* reads eventTime (or its argument) and eventTimeZone of the render that  *)
(* created it; after the first lines it waits 300 ms.  Timers of equal     *)
(* delay fire in the order they were set, so the waiting calls are a queue.*)
(***************************************************************************)
MissingMessage(v) ==
  IF v = "freeText" THEN "Please enter an event time"
  ELSE "Please select an event time"

InvalidMessage(v) ==
  IF v = "freeText"
  THEN "Invalid date format. Please use ISO format (e.g., 2025-06-12T12:00:00Z) or select a valid date."
  ELSE "Invalid date selected. Please choose a valid date."

ErrorMessage == "Error converting time. Please try again."

\* the lines of handleConvert before the delay, for the value it reads
handleConvert(date) ==
  IF Falsy(date)
  THEN /\ error' = MissingMessage(variant)
       /\ done' = Resolved("missing")
       /\ UNCHANGED <<isConverting, pending, burst>>
  ELSE /\ isConverting' = TRUE
       /\ error' = ""
       /\ pending' = Append(pending, [arg |-> date, tz |-> eventTimeZone])
       /\ burst' = IF pending = <<>> THEN [overlap |-> FALSE, writes |-> 0]
                   ELSE [burst EXCEPT !.overlap = TRUE]
       /\ UNCHANGED done

\* the date a suspended call converts: the parsed text, or the picked
\* date moved by the offset the call has read
DateToConvert(call, v) ==
  IF v = "freeText" THEN ParseISO(call.arg)
  ELSE AdjustedDate(call.arg, OffsetHours(call.tz))

\* the date whose validity the call tests after the delay
DateToTest(call, v) ==
  IF v = "freeText" THEN ParseISO(call.arg) ELSE call.arg

CanStartCall == Len(pending) < MaxInFlight

\* the rest of handleConvert, when its timer fires
TimerFires ==
  /\ pending # <<>>
  /\ pending' = Tail(pending)
  /\ isConverting' = FALSE
  /\ LET call == Head(pending)
     IN  IF isNaN(getTime(DateToTest(call, variant)))
         THEN /\ error' = InvalidMessage(variant)
              /\ done' = Resolved("unparseable")
              /\ UNCHANGED <<convertedTimes, lastCall, burst>>
         ELSE LET date == DateToConvert(call, variant)
                  out == Conversions(date, hostZone, knownZones, variant,
                                 narrowSpace)
              IN  /\ convertedTimes' = SetConvertedTimes(convertedTimes, out)
                  /\ error' = IF out.ok THEN error ELSE ErrorMessage
                  /\ done' = IF out.ok
                             THEN Publication(EmptyStr, call.arg, call.tz)
                             ELSE Resolved(OutcomeKind(date, out))
                  /\ lastCall' = IF out.ok
                                 THEN [date |-> EmptyStr, arg |-> call.arg,
                                       tz |-> call.tz, zone |-> hostZone,
                                       list |-> out.list]
                                 ELSE lastCall
                  /\ burst' = IF out.ok /\ burst.writes < 2
                              THEN [burst EXCEPT !.writes = @ + 1]
                              ELSE burst
  /\ UNCHANGED <<variant, pc, env, eventDate, eventTime, eventTimeZone,
                 effectPending, lastOp, events>>
  /\ UNCHANGED others

(***************************************************************************)
(* The free-text variant.                                                  *)
(***************************************************************************)
\* the mount effect: setEventTime(now.toISOString()); handleConvert() of
\* the first render, whose eventTime is the empty string
MountFreeText ==
  /\ variant = "freeText" /\ pc = "init"
  /\ pc' = "ready"
  /\ eventTime' = toISOString(DateObj(Num(now)))
  /\ handleConvert(eventTime)
  /\ lastOp' = [op |-> "mount", at |-> now, hours |-> 0]
  /\ UNCHANGED <<variant, env, eventDate, eventTimeZone, convertedTimes,
                 effectPending, lastCall, events>>
  /\ UNCHANGED others

\* the text input, and the datetime-local input that appends ":00Z"
TypeEventTime ==
  /\ variant = "freeText" /\ pc = "ready" /\ External
  /\ \E v \in {EmptyStr, BadStr}
              \cup {ISO(d, m) : d \in 0..MaxDay, m \in TypedTimes} :
       eventTime' = v
  /\ lastOp' = Edit
  /\ UNCHANGED <<variant, pc, env, eventDate, eventTimeZone, convertedTimes,
                 error, isConverting, effectPending, pending, lastCall, done,
                 burst>>
  /\ UNCHANGED others

\* setEventTime(now.toISOString()); handleConvert() of the current render
QuickFillFreeText ==
  /\ variant = "freeText" /\ pc = "ready" /\ External /\ CanStartCall
  /\ \E hours \in QuickFillHours :
       /\ eventTime' = toISOString(setHours(DateObj(Num(now)), hours, hostZone))
       /\ lastOp' = [op |-> "quickfill", at |-> now, hours |-> hours]
  /\ handleConvert(eventTime)
  /\ UNCHANGED <<variant, pc, env, eventDate, eventTimeZone, convertedTimes,
                 effectPending, lastCall>>
  /\ UNCHANGED others

\* the Convert button, disabled while isConverting
ClickConvertFreeText ==
  /\ variant = "freeText" /\ pc = "ready" /\ External /\ CanStartCall
  /\ ~isConverting
  /\ handleConvert(eventTime)
  /\ lastOp' = Edit
  /\ UNCHANGED <<variant, pc, env, eventDate, eventTime, eventTimeZone,
                 convertedTimes, effectPending, lastCall>>
  /\ UNCHANGED others

(***************************************************************************)
(* The date-picker variant.                                                *)
(***************************************************************************)
\* the mount effect: setEventTime(now); handleConvert(now)
MountDatePicker ==
  /\ variant = "datePicker" /\ pc = "init"
  /\ pc' = "ready"
  /\ eventTime' = DateObj(Num(now))
  /\ handleConvert(eventTime')
  /\ lastOp' = [op |-> "mount", at |-> now, hours |-> 0]
  /\ UNCHANGED <<variant, env, eventDate, eventTimeZone, convertedTimes,
                 effectPending, lastCall, events>>
  /\ UNCHANGED others

\* the picker: the wall-clock reading the user picks, as a Date of the
\* host's zone, or null when the field is cleared
PickerChange ==
  /\ variant = "datePicker" /\ pc = "ready" /\ External /\ CanStartCall
  /\ \E date \in {Null} \cup
                 {DateObj(Num(LocalToUTC(hostZone, d * MinutesPerDay + m))) :
                    d \in 0..MaxDay, m \in TypedTimes} :
       eventTime' = date
  /\ handleConvert(eventTime')
  /\ lastOp' = Edit
  /\ UNCHANGED <<variant, pc, env, eventDate, eventTimeZone, convertedTimes,
                 effectPending, lastCall>>
  /\ UNCHANGED others

\* the offset select: setEventTimeZone(value); handleConvert() of the
\* current render, which reads the offset selected before
SelectOffset ==
  /\ variant = "datePicker" /\ pc = "ready" /\ External /\ CanStartCall
  /\ \E o \in OffsetChoices : eventTimeZone' = utcOffsets[o]
  /\ handleConvert(eventTime)
  /\ lastOp' = [op |-> "select", at |-> 0, hours |-> 0]
  /\ UNCHANGED <<variant, pc, env, eventDate, eventTime, convertedTimes,
                 effectPending, lastCall>>
  /\ UNCHANGED others

\* setEventTime(now); handleConvert(now)
QuickFillDatePicker ==
  /\ variant = "datePicker" /\ pc = "ready" /\ External /\ CanStartCall
  /\ \E hours \in QuickFillHours :
       /\ eventTime' = setHours(DateObj(Num(now)), hours, hostZone)
       /\ lastOp' = [op |-> "quickfill", at |-> now, hours |-> hours]
  /\ handleConvert(eventTime')
  /\ UNCHANGED <<variant, pc, env, eventDate, eventTimeZone, convertedTimes,
                 effectPending, lastCall>>
  /\ UNCHANGED others

\* the Convert button, disabled while isConverting
ClickConvertDatePicker ==
  /\ variant = "datePicker" /\ pc = "ready" /\ External /\ CanStartCall
  /\ ~isConverting
  /\ handleConvert(eventTime)
  /\ lastOp' = Edit
  /\ UNCHANGED <<variant, pc, env, eventDate, eventTime, eventTimeZone,
                 convertedTimes, effectPending, lastCall>>
  /\ UNCHANGED others

(***************************************************************************)
(* Copying a record: copyToClipboard of the three variants.                *)
(***************************************************************************)
\* the copy buttons the user presses, by the index of their record
CopyButtons == {0, 1}

\* the delay of the acknowledgment timer, in milliseconds
CopiedDelay(v) == IF v = "offsetPicker" THEN 1500 ELSE 2000

\* a write that acknowledges and starts a timer even when it failed
AfterWriteAlways(ok, index, copied, timers, v) ==
  [copiedIndex |-> <<index>>,
   copyTimers |-> Append(timers, [index |-> index, delay |-> CopiedDelay(v)])]

\* a write that acknowledges but never starts the timer
AfterWriteNoTimer(ok, index, copied, timers, v) ==
  IF ok
  THEN [copiedIndex |-> <<index>>, copyTimers |-> timers]
  ELSE [copiedIndex |-> copied, copyTimers |-> timers]

\* what follows  await navigator.clipboard.writeText(text) : on success
\* setCopiedIndex(index) and setTimeout(() => setCopiedIndex(null), delay);
\* on failure the catch block, which only logs
AfterWrite(ok, index, copied, timers, v) ==
  IF ok
  THEN [copiedIndex |-> <<index>>,
        copyTimers |-> Append(timers,
                              [index |-> index, delay |-> CopiedDelay(v)])]
  ELSE [copiedIndex |-> copied, copyTimers |-> timers]

\* the sequence without its k-th element
RemoveAt(seq, k) ==
  [i \in 1..(Len(seq) - 1) |-> IF i < k THEN seq[i] ELSE seq[i + 1]]

\* a press of the copy button of record index: the write is requested
CopyClick ==
  /\ pc = "ready" /\ copies < MaxCopies
  /\ \E index \in CopyButtons :
       /\ index < Len(convertedTimes)
       /\ clipboard' = Append(clipboard, index)
  /\ copies' = copies + 1
  /\ UNCHANGED <<copiedIndex, copyTimers, copyDone>>
  /\ UNCHANGED conversionVars

\* a clipboard write settles, successfully or not
Settles(ok) ==
  /\ \E k \in 1..Len(clipboard) :
       LET after == AfterWrite(ok, clipboard[k], copiedIndex, copyTimers,
                               variant)
       IN  /\ copiedIndex' = after.copiedIndex
           /\ copyTimers' = after.copyTimers
           /\ copyDone' = [tick |-> ~copyDone.tick, ok |-> ok,
                           index |-> clipboard[k]]
           /\ clipboard' = RemoveAt(clipboard, k)
  /\ UNCHANGED copies
  /\ UNCHANGED conversionVars

ClipboardResolves ==
  /\ clipboard # <<>>
  /\ Settles(TRUE)

ClipboardRejects ==
  /\ clipboard # <<>>
  /\ Settles(FALSE)

\* the oldest acknowledgment timer fires: setCopiedIndex(null)
CopyTimerFires ==
  /\ copyTimers # <<>>
  /\ copiedIndex' = <<>>
  /\ copyTimers' = Tail(copyTimers)
  /\ UNCHANGED <<clipboard, copyDone, copies>>
  /\ UNCHANGED conversionVars

Next ==
  \/ Tick
  \/ HostZoneChange
  \/ MountOffsetPicker
  \/ SetEventDate
  \/ SetEventTime
  \/ SetEventTimeZone
  \/ QuickFillOffsetPicker
  \/ AutoConvert
  \/ MountFreeText
  \/ TypeEventTime
  \/ QuickFillFreeText
  \/ ClickConvertFreeText
  \/ MountDatePicker
  \/ PickerChange
  \/ SelectOffset
  \/ QuickFillDatePicker
  \/ ClickConvertDatePicker
  \/ TimerFires

Spec == Init /\ [][Next]_vars

LabelSpec == LabelInit /\ [][Next]_vars

\* the widget on one host, used through its copy buttons, the offset
\* picker's quick-fill and the free-text Convert button; a timer that was
\* set does fire
CopyInit ==
  /\ Init
  /\ hostZone = "UTC"
  /\ knownZones = CatalogZones \cup HostZones
  /\ ~narrowSpace

CopyNext ==
  \/ MountOffsetPicker
  \/ AutoConvert
  \/ MountFreeText
  \/ MountDatePicker
  \/ QuickFillOffsetPicker
  \/ ClickConvertFreeText
  \/ TimerFires
  \/ CopyClick
  \/ ClipboardResolves
  \/ ClipboardRejects
  \/ CopyTimerFires

CopySpec == CopyInit /\ [][CopyNext]_vars /\ WF_vars(CopyTimerFires)

(***************************************************************************)
(* Properties.                                                             *)
(***************************************************************************)
Idle == pending = <<>> /\ ~effectPending

\* a step in which a conversion request was resolved
Resolves == done'.tick # done.tick

AllZones == HostZones \cup
            {"America/New_York", "America/Los_Angeles", "Europe/London",
             "Asia/Tokyo", "Australia/Sydney", "Asia/Dubai"}

\* the zone of the viewer record on display, the host's when none is shown
ViewerZoneShown ==
  IF convertedTimes = <<>> THEN hostZone ELSE convertedTimes[1].zone

\* the list that shows the instant t, for the viewer zone on display
ListOfInstant(t) ==
  Conversions(DateObj(Num(t)), ViewerZoneShown, AllZones, variant,
              narrowSpace).list

\* the date and time fields the publishing call has read, as the user
\* sees them in the form, taken as a reading of UTC
FieldsReadAsUTC ==
  CASE variant = "offsetPicker" ->
         lastCall.date.d * MinutesPerDay + lastCall.arg.m
    [] variant = "freeText" ->
         lastCall.arg.d * MinutesPerDay + lastCall.arg.m
    [] OTHER -> WallClock(lastCall.arg.n, lastCall.zone)

\* C1: every record of a published list shows the instant that is the
\* date and time fields read as UTC minus the source offset hours,
\* whatever the viewer's zone is.
C1_AnchorIsFieldsAsUTCMinusOffset ==
  lastCall.list # <<>> =>
    \A i \in 1..Len(lastCall.list) :
      lastCall.list[i].converted =
        WallClock(FieldsReadAsUTC - 60 * OffsetHours(lastCall.tz).n,
                  lastCall.list[i].zone)

\* C2: a published list has seven records, the viewer's first and then
\* New York, Los Angeles, London, Tokyo, Sydney, Dubai in this order; only
\* the viewer's record is local.
C2_ListShape ==
  convertedTimes # <<>> =>
    /\ Len(convertedTimes) = 7
    /\ [i \in 1..7 |-> convertedTimes[i].name]
         = <<"Your Local Time", "New York", "Los Angeles", "London",
             "Tokyo", "Sydney", "Dubai">>
    /\ [i \in 1..7 |-> convertedTimes[i].zone]
         = <<lastCall.zone, "America/New_York", "America/Los_Angeles",
             "Europe/London", "Asia/Tokyo", "Australia/Sydney", "Asia/Dubai">>
    /\ \A i \in 1..7 : convertedTimes[i].isLocal = (i = 1)

C2_Witness ==
  Len(convertedTimes) = 7 /\ burst.writes = 2 /\ pending = <<>>

\* C3 as stated: no zone identifier appears in two records of a
\* published list.
C3_NoZoneTwice ==
  \A i, j \in 1..Len(convertedTimes) :
    convertedTimes[i].zone = convertedTimes[j].zone => i = j

\* C3 as amended: a published list has one record for the viewer's zone
\* and one for each of the six catalog zones, none of the six twice and
\* none left out; the viewer's zone may be one of the six as well.
C3_OneRecordPerEntry ==
  convertedTimes # <<>> =>
    /\ convertedTimes[1].zone = lastCall.zone
    /\ {convertedTimes[i].zone : i \in 2..Len(convertedTimes)}
         = {"America/New_York", "America/Los_Angeles", "Europe/London",
            "Asia/Tokyo", "Australia/Sydney", "Asia/Dubai"}
    /\ \A i, j \in 2..Len(convertedTimes) :
         convertedTimes[i].zone = convertedTimes[j].zone => i = j

C3_Witness ==
  /\ convertedTimes # <<>>
  /\ \E i \in 2..Len(convertedTimes) :
       convertedTimes[i].zone = convertedTimes[1].zone

\* C4: a conversion that ends on a missing or unparseable date/time
\* leaves the displayed list as it was.
C4_InvalidInputKeepsList ==
  [][(Resolves /\ done'.outcome \in {"missing", "unparseable"})
       => convertedTimes' = convertedTimes]_vars

C4_Witness ==
  done.outcome = "unparseable" /\ convertedTimes # <<>>

\* C5: a conversion that ends on a missing or unparseable date/time sets
\* a non-empty error message, in every variant.
C5_InvalidInputTellsUser ==
  [][(Resolves /\ done'.outcome \in {"missing", "unparseable"})
       => error' # ""]_vars

\* C6: once the conversion of a quick-fill of the given hours, pressed at
\* the instant I, has finished, the list on display is the list of
\* I + hours (on a host that knows every zone of the list).
C6_QuickFillShowsShiftedNow ==
  (lastOp.op = "quickfill" /\ Idle /\ knownZones = AllZones) =>
    convertedTimes = ListOfInstant(lastOp.at + 60 * lastOp.hours)

\* C7: a conversion in which a zone is not known to the host publishes
\* the records of the zones that are known, in their order.
C7_UnknownZoneIsSkipped ==
  [][(Resolves /\ done'.outcome = "zone")
       => [i \in 1..Len(convertedTimes') |-> convertedTimes'[i].zone]
            = SelectSeq([i \in 1..7 |-> allTimeZones(hostZone)[i].zone],
                        LAMBDA z : z \in knownZones)]_vars

\* C8: when calls have overlapped and all of them have finished, the
\* list on display is the one written by the call that was the last to
\* write.
C8_LastWriteWins ==
  (pending = <<>> /\ burst.overlap) => convertedTimes = lastCall.list

C8_Witness ==
  pending = <<>> /\ burst.overlap /\ burst.writes = 2

\* C9: after the page has loaded and its conversion has finished, with
\* no user action, the list of the load instant is on display and no
\* error message is (on a host that knows every zone of the list).
C9_LoadShowsNow ==
  (pc = "ready" /\ lastOp.op = "mount" /\ Idle /\ knownZones = AllZones) =>
    (error = "" /\ convertedTimes = ListOfInstant(lastOp.at))

\* C10: a conversion that reads the same date/time and offset under the
\* same host zone as the conversion that published before it publishes
\* the same list.
C10_SameInputsSameList ==
  [][(Resolves /\ done'.outcome = "published" /\ done'.repeat)
       => convertedTimes' = convertedTimes]_vars

C10_Witness ==
  done.outcome = "published" /\ done.repeat


(***************************************************************************)
(* Copying.                                                                *)
(***************************************************************************)
Settled == copyDone'.tick # copyDone.tick

\* C11: a successful copy of record i sets copiedIndex to i, with a timer of
\* the variant's fixed delay, and an acknowledgment that is shown is always
\* eventually cleared, whatever other copies happen in between.
C11_AckSetThenCleared ==
  /\ [][(Settled /\ copyDone'.ok) =>
          /\ copiedIndex' = <<copyDone'.index>>
          /\ copyTimers' # <<>>
          /\ copyTimers'[Len(copyTimers')].delay = CopiedDelay(variant)]_vars
  /\ ((copiedIndex # <<>>) ~> (copiedIndex = <<>>))

C11_Witness ==
  /\ copies > 1 /\ copyDone.ok
  /\ clipboard = <<>> /\ copyTimers = <<>> /\ copiedIndex = <<>>

\* C12: a clipboard write that fails changes nothing: copiedIndex, error,
\* the result list and the form inputs stay, and no timer is started.
C12_FailedCopyIsSilent ==
  [][(Settled /\ ~copyDone'.ok) =>
       UNCHANGED <<copiedIndex, copyTimers, error, convertedTimes,
                   eventDate, eventTime, eventTimeZone>>]_vars

C12_Witness ==
  /\ ~copyDone.ok /\ copiedIndex # <<>> /\ copiedIndex # <<copyDone.index>>

\* C21: the acknowledgment on display is that of the most recent successful
\* copy, whose timer is the youngest of the pending ones; it is cleared
\* only when that timer fires, never by the timer of an earlier copy.
C21_AckClearedByOwnTimer ==
  [][(copiedIndex # <<>> /\ copiedIndex' = <<>>)
       => Len(copyTimers) = 1]_vars


(***************************************************************************)
(* The source offset.                                                      *)
(***************************************************************************)
\* the option is one of the 25 of the list and parses to its own offset
IsOption(tz) ==
  \E i \in 1..Len(utcOffsets) :
    /\ tz = utcOffsets[i]
    /\ OffsetHours(tz) = Num(i - 13)
    /\ OffsetHours(tz).n \in -12..12

\* the list has 25 options, each parses to its own offset, "UTC" to 0
OptionsParse ==
  /\ Len(utcOffsets) = 25
  /\ \A i \in 1..Len(utcOffsets) : IsOption(utcOffsets[i])
  /\ OffsetHours(<<"U", "T", "C">>) = Num(0)

\* C13: the offset a conversion applies is a whole number of hours between
\* -12 and +12: the selection starts at "UTC", is only ever one of the 25
\* options, and each option parses to its own signed integer, "UTC" to 0.
C13_OffsetIsWholeHours ==
  /\ OptionsParse
  /\ IsOption(eventTimeZone)
  /\ \A k \in 1..Len(pending) : IsOption(pending[k].tz)
  /\ lastCall.list # <<>> => IsOption(lastCall.tz)
  /\ pc = "init" => eventTimeZone = <<"U", "T", "C">>

C13_Witness ==
  /\ variant # "freeText"
  /\ done.outcome = "published"
  /\ lastCall.list # <<>>
  /\ OffsetHours(lastCall.tz) = Num(-12)


(***************************************************************************)
(* The viewer's zone.                                                      *)
(***************************************************************************)
\* C14: every conversion asks the host for the viewer's zone anew: the
\* viewer's record of a list carries the zone the host reported when the
\* conversion that published the list ran, also after the zone has changed.
C14_ViewerZoneIsRequeried ==
  [][(Resolves /\ done'.outcome = "published") =>
       /\ convertedTimes' # <<>>
       /\ convertedTimes'[1].isLocal
       /\ convertedTimes'[1].zone = hostZone
       /\ convertedTimes'[1].converted
            = WallClock(LocalToUTC(convertedTimes'[2].zone,
                                   convertedTimes'[2].converted), hostZone)]_vars

C14_Witness ==
  /\ done.outcome = "published" /\ done.rezoned
  /\ convertedTimes[1].zone = hostZone


(***************************************************************************)
(* The offset label.                                                       *)
(***************************************************************************)
\* C15: every record carries the label "GMT" followed by the signed hour
\* offset of its zone at the converted instant ("GMT-5", "GMT+9"), and no
\* other token.
C15_LabelIsGMTOffset ==
  \A i \in 1..Len(convertedTimes) :
    LET rec == convertedTimes[i]
        t == LocalToUTC(rec.zone, rec.converted)
    IN  rec.offset = Label("GMT", "", TRUE, UtcOffset(rec.zone, t) \div 60)


(***************************************************************************)
(* The offset picker: the fields the helpers write, and auto-convert.      *)
(***************************************************************************)
\* C16: the date and the time that the load or a quick-fill writes are one
\* wall-clock reading: parsed back as the conversion parses them, they are
\* the instant of the press plus the requested hours.
C16_FilledFieldsAreOneReading ==
  [][(variant = "offsetPicker" /\ lastOp' # lastOp
        /\ lastOp'.op \in {"mount", "quickfill"})
       => ParseLocalDateTime(eventDate', eventTime', hostZone)
            = DateObj(Num(lastOp'.at + 60 * lastOp'.hours))]_vars

\* the list of the three fields as they are now, converted on the host
\* zone z
ListOfFields(z) ==
  Conversions(AdjustedDate(ParseLocalDateTime(eventDate, eventTime, z),
                           OffsetHours(eventTimeZone)),
              z, knownZones, variant, narrowSpace).list

\* C17: once the effects have run and the date and the time are both
\* present and valid, the list shown is the conversion of the current date,
\* time and offset (on a host that knows every zone of the list).
C17_ListFollowsFields ==
  (/\ variant = "offsetPicker" /\ pc = "ready" /\ ~effectPending
   /\ knownZones = AllZones
   /\ ~Falsy(eventDate) /\ ~Falsy(eventTime)
   /\ ~isNaN(getTime(ParseLocalDateTime(eventDate, eventTime, hostZone))))
  => /\ convertedTimes # <<>>
     /\ convertedTimes = ListOfFields(lastCall.zone)

C17_Witness ==
  /\ variant = "offsetPicker" /\ pc = "ready" /\ ~effectPending
  /\ knownZones = AllZones
  /\ lastOp = Edit /\ events > 1
  /\ eventTimeZone # <<"U", "T", "C">>
  /\ eventTime = HM(720)
  /\ convertedTimes # <<>>
  /\ convertedTimes = ListOfFields(lastCall.zone)


(***************************************************************************)
(* The date picker: the offset select.                                     *)
(***************************************************************************)
\* C18: when the conversion that a selection of an offset started has
\* finished, the list shown is the conversion of the selected event time
\* with the offset that was selected (on a host that knows every zone).
C18_SelectionConvertsWithNewOffset ==
  (/\ variant = "datePicker" /\ lastOp.op = "select" /\ Idle
   /\ knownZones = AllZones /\ ~Falsy(eventTime))
  => convertedTimes
       = Conversions(AdjustedDate(eventTime, OffsetHours(eventTimeZone)),
                     lastCall.zone, knownZones, variant, narrowSpace).list


(***************************************************************************)
(* The free-text and the date-picker variants: calls that overlap.         *)
(***************************************************************************)
\* C19: isConverting is true exactly while a conversion has started and
\* not yet finished.
C19_IsConvertingWhileInFlight ==
  variant # "offsetPicker" => (isConverting <=> pending # <<>>)

\* C20: a conversion that publishes a list leaves the error message empty.
C20_PublishedMeansNoError ==
  [][(variant # "offsetPicker" /\ Resolves /\ done'.outcome = "published")
       => error' = ""]_vars

====
